---- MODULE Spec2Model ----
(***************************************************************************)
(* The conversation controller of src/chatbot.py: one Streamlit script run *)
(* per user utterance (lines 182-299) and the reset button (302-306),      *)
(* acting on st.session_state.                                             *)
(*                                                                         *)
(* A text is a sequence of atoms.  Texts the code parses (gateway          *)
(* responses) are spelled one character per atom; a string literal of the  *)
(* source that is only stored and shown is one atom holding the literal.   *)
(* An optional value is None (<<>>) or Some(v) (<<v>>).                    *)
(*                                                                         *)
(* NEWSAPI_KEY is taken to be set: without it line 34 stops every run      *)
(* before the controller.  An exception that leaves the script (line 214)  *)
(* ends the run; Streamlit keeps the session state written before it.      *)
(***************************************************************************)
EXTENDS Integers, Sequences, FiniteSets, TLC

VARIABLES
    messages,                \* st.session_state.messages
    questions,               \* st.session_state.questions
    answers,                 \* st.session_state.answers
    suggestions,             \* st.session_state.suggestions
    goal,                    \* st.session_state.goal
    broad_intent,            \* st.session_state.broad_intent
    risk_tolerance,          \* st.session_state.risk_tolerance
    awaiting_confirmation,   \* st.session_state.awaiting_confirmation
    current_question_index,  \* st.session_state.current_question_index
    conversation_complete,   \* st.session_state.conversation_complete
    nova_client,             \* module-level nova_client: TRUE when initialised
    last,                    \* history: the last script run (where it started,
                             \* the calls it made, how it ended)
    cycle,                   \* history: counts since the last reset
    pure                     \* a helper function applied on its own: its
                             \* name, argument and result (FnSpec only)

vars == <<messages, questions, answers, suggestions, goal, broad_intent,
          risk_tolerance, awaiting_confirmation, current_question_index,
          conversation_complete, nova_client, last, cycle, pure>>

-----------------------------------------------------------------------------
(* Bounds *)

\* user utterances handled between two resets
MaxTurns == 5
\* newline-separated lines in a question-planner response
MaxLines == 4
\* characters of a text given to parse_unique_suggestions on its own
MaxTextLen == 5
\* characters of a title part given to the title cleaning on its own
MaxTitleLen == 4

-----------------------------------------------------------------------------
(* Python values and string operations *)

None == <<>>
Some(v) == <<v>>

\* Python truthiness of an optional text: None and "" are falsy
Truthy(opt) == opt # None /\ opt[1] # <<>>

\* characters str.strip() and the regex class \s remove
Whitespace == {" ", "\t", "\n", "\r"}

\* the regex class \d
Digits == {"0", "1", "2", "3", "4", "5", "6", "7", "8", "9"}

\* length of the longest prefix of s made of atoms in set
LeadingCount(s, set) ==
    CHOOSE n \in 0..Len(s) :
        /\ \A i \in 1..n : s[i] \in set
        /\ (n = Len(s) \/ s[n + 1] \notin set)

\* length of the longest suffix of s made of atoms in set
TrailingCount(s, set) ==
    CHOOSE n \in 0..Len(s) :
        /\ \A i \in (Len(s) - n + 1)..Len(s) : s[i] \in set
        /\ (n = Len(s) \/ s[Len(s) - n] \notin set)

\* str.strip()
Strip(s) ==
    LET a == LeadingCount(s, Whitespace)
    IN  IF a = Len(s) THEN <<>>
        ELSE SubSeq(s, a + 1, Len(s) - TrailingCount(s, Whitespace))

\* sub in s
Contains(sub, s) ==
    \E i \in 0..(Len(s) - Len(sub)) : SubSeq(s, i + 1, i + Len(sub)) = sub

\* index of the first occurrence of atom c in s, 0 when there is none
FirstIndex(s, c) ==
    IF \E i \in 1..Len(s) : s[i] = c
    THEN CHOOSE i \in 1..Len(s) : s[i] = c /\ \A j \in 1..(i - 1) : s[j] # c
    ELSE 0

\* text.split(sep): "" splits into one empty piece
RECURSIVE Split(_, _)
Split(text, sep) ==
    LET i == FirstIndex(text, sep)
    IN  IF i = 0 THEN <<text>>
        ELSE <<SubSeq(text, 1, i - 1)>> \o Split(SubSeq(text, i + 1, Len(text)), sep)

\* str.lower() on the letters the responses use
LowerChar(c) ==
    CASE c = "A" -> "a"
      [] c = "B" -> "b"
      [] c = "C" -> "c"
      [] OTHER -> c

\* faulty variant: the key is not lower-cased
Lower_NoFold(s) == s

Lower(s) == [i \in 1..Len(s) |-> LowerChar(s[i])]

-----------------------------------------------------------------------------
(* Literals of the source *)

OutOfDomain == <<"O", "u", "t", " ", "o", "f", " ", "D", "o", "m", "a", "i", "n">>
GeneralInquiry == <<"G", "e", "n", "e", "r", "a", "l", " ", "I", "n", "q", "u", "i", "r", "y">>
DebtManagement == <<"D", "e", "b", "t", " ", "M", "a", "n", "a", "g", "e", "m", "e", "n", "t">>
SavingInvesting == <<"S", "a", "v", "i", "n", "g", "/", "I", "n", "v", "e", "s", "t", "i", "n", "g">>

OutOfDomainMsg ==
    <<"I'm sorry, but I can only assist with personal finance topics like saving, loans, and budgeting. How can I help you with your finances?">>
GeneralInquiryMsg ==
    <<"Hello! I'm here to help you with your financial goals. What would you like to achieve? For example, you can tell me 'I want to save for a vacation' or 'I need to understand my loan options.'">>
RephraseMsg ==
    <<"I'm having a little trouble thinking of questions right now. Could you please rephrase your goal?">>
SuggestionsHeader ==
    <<"Based on our conversation, here are a few tailored suggestions for you:", "\n", "\n">>
NewsHeader == <<"\n", "\n", "*Relevant News:*", "\n">>
safe_nova_call_fallback ==
    <<"I'm sorry, I couldn't process that. Could you try again?">>

UserMsg(text) == [role |-> "user", content |-> text]
AssistantMsg(text) == [role |-> "assistant", content |-> text]

\* the defaults of initialize_session_state
defaults ==
    [messages |-> <<>>, questions |-> <<>>, answers |-> <<>>,
     suggestions |-> <<>>, goal |-> None, broad_intent |-> None,
     risk_tolerance |-> None, awaiting_confirmation |-> FALSE,
     current_question_index |-> 0, conversation_complete |-> FALSE]

-----------------------------------------------------------------------------
(* Inputs: what the user types and what the collaborators return *)

\* the k-th utterance of a cycle; the code never looks into an utterance, so
\* one text per turn is enough to tell the utterances apart
Utterance(k) == <<"u", ToString(k)>>

\* get_nova_response returns "" on any gateway error
GatewayFailure == <<>>

IntentResponses ==
    {GatewayFailure, OutOfDomain, GeneralInquiry \o <<".">>, DebtManagement,
     <<"R", "e", "t", "i", "r", "e", "m", "e", "n", "t", " ", "P", "l", "a", "n", "n", "i", "n", "g">>}

\* line i of a planner response: a blank line (empty at odd positions, one
\* space at even ones) or a question with surrounding whitespace
PlannerLines(i) ==
    {IF i % 2 = 1 THEN <<>> ELSE <<" ">>, <<" ", "q", ToString(i), " ">>}

RECURSIVE JoinLines(_)
JoinLines(lines) ==
    IF Len(lines) = 1 THEN lines[1]
    ELSE lines[1] \o <<"\n">> \o JoinLines(Tail(lines))

PlannerResponses ==
    {GatewayFailure} \cup {JoinLines(ls) :
        ls \in UNION {{f \in [1..n -> UNION {PlannerLines(i) : i \in 1..n}] :
                          \A i \in 1..n : f[i] \in PlannerLines(i)} :
                      n \in 1..MaxLines}}

SuggestionResponses ==
    {GatewayFailure,
     <<"o", "k">>,
     <<"1", ".", " ", "A", ":", " ", "x", "\n", "2", ")", " ", "a", ":", " ", "y", "\n", " ", "B", " ", ":", " ", "z">>}

FollowUpResponses == {GatewayFailure, <<"o", "k">>}

NewsResults == {<<>>, <<[title |-> <<"N">>, url |-> <<"U">>]>>}

-----------------------------------------------------------------------------
(* Helper functions of chatbot.py *)

\* ask_nova: "" without a client, else the gateway's text ("" on its failure)
ask_nova(response) == IF nova_client THEN response ELSE GatewayFailure

\* get_broad_intent_from_nova returns ask_nova's text as it is
get_broad_intent_from_nova(response) == ask_nova(response)

IsOutOfDomain(intent) == Contains(OutOfDomain, intent)

IsGeneralInquiry(intent) == Contains(GeneralInquiry, intent)

\* lines 110-118: the data returned for "Debt Management"
LoanOptions ==
    [title |-> <<"Indicative Loan Options">>,
     disclaimer |-> <<"Note: These are estimated interest rates and terms. Please verify directly with banks for current, personalized offers.">>,
     options |-> <<
       [title |-> <<"Personal Loan">>,
        explanation |-> <<"Typically 10.5% - 16% p.a. Flexible use, shorter tenure (1-5 years).">>],
       [title |-> <<"Home Loan">>,
        explanation |-> <<"Typically 8.5% - 9.5% p.a. For property purchase, long tenure (15-30 years).">>],
       [title |-> <<"Car Loan">>,
        explanation |-> <<"Typically 9% - 11% p.a. For new or used cars, tenure up to 7 years.">>] >>]

\* lines 120-127: the data returned for "Saving/Investing"
FixedDepositRates ==
    [title |-> <<"Indicative Fixed Deposit Rates">>,
     disclaimer |-> <<"Note: These are sample rates for general citizens. Senior citizen rates are often higher. Please verify with the bank.">>,
     options |-> <<
       [title |-> <<"Major Private Bank FD (e.g., HDFC/ICICI)">>,
        explanation |-> <<"Approx. 7.0% - 7.25% p.a. for 1-2 year tenures.">>],
       [title |-> <<"Major Public Bank FD (e.g., SBI)">>,
        explanation |-> <<"Approx. 6.8% - 7.10% p.a. for 1-2 year tenures.">>] >>]

\* faulty variant: the intent is matched by containment, as the classifier's
\* control categories are
get_static_bank_info_BySubstring(intent) ==
    IF Contains(DebtManagement, intent) THEN Some(LoanOptions)
    ELSE IF Contains(SavingInvesting, intent) THEN Some(FixedDepositRates)
    ELSE None

get_static_bank_info(intent) ==
    IF intent = DebtManagement THEN Some(LoanOptions)
    ELSE IF intent = SavingInvesting THEN Some(FixedDepositRates)
    ELSE None

\* re.sub(r"^\s*\d+[\.\)]?\s*", "", title_part): the pattern matches only
\* when a digit follows the leading whitespace
StripOrdinal(title_part) ==
    LET ws == LeadingCount(title_part, Whitespace)
        rest1 == SubSeq(title_part, ws + 1, Len(title_part))
        ds == LeadingCount(rest1, Digits)
        rest2 == SubSeq(rest1, ds + 1, Len(rest1))
        rest3 == IF rest2 # <<>> /\ rest2[1] \in {".", ")"} THEN Tail(rest2) ELSE rest2
    IN  IF ds = 0 THEN title_part
        ELSE SubSeq(rest3, LeadingCount(rest3, Whitespace) + 1, Len(rest3))

clean_title(title_part) == Strip(StripOrdinal(title_part))

\* the loop of parse_unique_suggestions over the remaining lines
RECURSIVE ParseLines(_, _, _)
ParseLines(lines, sugs, existing_titles_lower) ==
    IF lines = <<>> THEN sugs
    ELSE LET line == Head(lines)
             c == FirstIndex(line, ":")
             title == clean_title(SubSeq(line, 1, c - 1))
             explanation == SubSeq(line, c + 1, Len(line))
             key == Lower(title)
         IN  IF c # 0 /\ key # <<>> /\ key \notin existing_titles_lower
             THEN ParseLines(Tail(lines),
                             Append(sugs, [title |-> title,
                                           explanation |-> Strip(explanation)]),
                             existing_titles_lower \cup {key})
             ELSE ParseLines(Tail(lines), sugs, existing_titles_lower)

parse_unique_suggestions(text) == ParseLines(Split(text, "\n"), <<>>, {})

\* [q.strip() for q in lines if q.strip()]
RECURSIVE StrippedNonEmpty(_)
StrippedNonEmpty(lines) ==
    IF lines = <<>> THEN <<>>
    ELSE (IF Strip(Head(lines)) # <<>> THEN <<Strip(Head(lines))>> ELSE <<>>)
         \o StrippedNonEmpty(Tail(lines))

\* line 213: the planner response as a list of questions
ParseQuestions(questions_text) == StrippedNonEmpty(Split(questions_text, "\n"))

\* faulty variant: the acknowledgment line is left in the queue
PopFirst_NoPop(qs) == qs

\* line 215: questions.pop(0)
PopFirst(qs) == Tail(qs)

\* line 240: zip(questions, answers)
Zip(qs, ans) ==
    [i \in 1..(IF Len(qs) < Len(ans) THEN Len(qs) ELSE Len(ans)) |->
        [q |-> qs[i], a |-> ans[i]]]

\* lines 267-268: the numbered suggestions from position i on
RECURSIVE NumberedSuggestions(_, _)
NumberedSuggestions(sugs, i) ==
    IF i > Len(sugs) THEN <<>>
    ELSE <<ToString(i), ".", " ", "*">> \o sugs[i].title \o <<"*", ":", " ">>
         \o sugs[i].explanation \o <<"\n">> \o NumberedSuggestions(sugs, i + 1)

\* lines 274-275
RECURSIVE NewsLinks(_)
NewsLinks(news) ==
    IF news = <<>> THEN <<>>
    ELSE <<"-", " ", "[">> \o Head(news).title \o <<"]", "(">> \o Head(news).url
         \o <<")", "\n">> \o NewsLinks(Tail(news))

\* lines 266-278: response_text of STAGE 3
SuggestionsMessage(final_suggestions, news, static_data) ==
    SuggestionsHeader
    \o NumberedSuggestions(final_suggestions, 1)
    \o (IF news # <<>> THEN NewsHeader \o NewsLinks(news) ELSE <<>>)
    \o (IF static_data # None /\ static_data[1].disclaimer # <<>>
        THEN <<"\n", "\n", "*">> \o static_data[1].disclaimer \o <<"*">>
        ELSE <<>>)

-----------------------------------------------------------------------------
(* The state machine *)

Call(fn, result) == [fn |-> fn, result |-> result]

UserTurns == Cardinality({i \in 1..Len(messages) : messages[i].role = "user"})

\* line 186: STAGE 1 handles the utterance
Stage1Applies == ~Truthy(goal)

\* line 224: STAGE 2 handles the utterance
Stage2Applies ==
    ~Stage1Applies /\ ~conversation_complete /\ questions # <<>>

\* line 238, as the tests read the state at that point of the run
Stage3Applies(complete, sugs) == complete /\ sugs = <<>>

\* line 288
Stage4Applies(complete, sugs) ==
    ~Stage3Applies(complete, sugs) /\ complete /\ sugs # <<>>

\* the branch of the if/elif chain that takes the next utterance
NextStage ==
    IF Stage1Applies THEN "STAGE 1"
    ELSE IF Stage2Applies THEN "STAGE 2"
    ELSE IF Stage3Applies(conversation_complete, suggestions) THEN "STAGE 3"
    ELSE IF Stage4Applies(conversation_complete, suggestions) THEN "STAGE 4"
    ELSE "none"

\* faulty variant: the "General Inquiry" branch does not reset the goal
GoalAfterClassification_GeneralKeepsGoal(user_input, intent) ==
    IF IsOutOfDomain(intent) THEN None ELSE Some(user_input)

\* lines 187, 195, 198: goal after classification
GoalAfterClassification(user_input, intent) ==
    IF IsOutOfDomain(intent) \/ IsGeneralInquiry(intent) THEN None
    ELSE Some(user_input)

\* faulty variant: off by one, the last queued question is never reached
HasMoreQuestions_OffByOne(index, qs) == index + 1 < Len(qs)

\* line 229
HasMoreQuestions(index, qs) == index < Len(qs)

\* no helper applied on its own
NoCall == [fn |-> "none", arg |-> <<>>, result |-> <<>>, done |-> FALSE]

Init ==
    /\ messages = defaults.messages
    /\ questions = defaults.questions
    /\ answers = defaults.answers
    /\ suggestions = defaults.suggestions
    /\ goal = defaults.goal
    /\ broad_intent = defaults.broad_intent
    /\ risk_tolerance = defaults.risk_tolerance
    /\ awaiting_confirmation = defaults.awaiting_confirmation
    /\ current_question_index = defaults.current_question_index
    /\ conversation_complete = defaults.conversation_complete
    /\ nova_client \in BOOLEAN
    /\ last = [from |-> "start", calls |-> <<>>, context |-> <<>>, end |-> "start"]
    /\ cycle = [planned |-> 0, answered |-> 0, synth_runs |-> 0]
    /\ pure = NoCall

\* lines 183-221: an utterance while no goal is set
Stage1(user_input, intent_response, questions_response) ==
    /\ UserTurns < MaxTurns
    /\ Stage1Applies
    /\ LET intent == get_broad_intent_from_nova(intent_response)
           declined == IsOutOfDomain(intent) \/ IsGeneralInquiry(intent)
           questions_text == ask_nova(questions_response)
           planned == ~declined /\ questions_text # <<>>
           parsed == ParseQuestions(questions_text)
           \* line 214 raises IndexError on an empty list
           raised == planned /\ parsed = <<>>
           response_text ==
               IF IsOutOfDomain(intent) THEN OutOfDomainMsg
               ELSE IF IsGeneralInquiry(intent) THEN GeneralInquiryMsg
               ELSE IF planned THEN parsed[1]
               ELSE RephraseMsg
           said == Append(messages, UserMsg(user_input))
       IN  /\ goal' = GoalAfterClassification(user_input, intent)
           /\ broad_intent' = Some(intent)
           /\ questions' = IF raised THEN parsed
                           ELSE IF planned THEN PopFirst(parsed)
                           ELSE questions
           /\ messages' = IF raised THEN said
                          ELSE Append(said, AssistantMsg(response_text))
           /\ current_question_index' =
                  IF raised THEN current_question_index ELSE 0
           /\ last' = [from |-> "STAGE 1",
                       calls |-> <<Call("get_broad_intent_from_nova", intent)>>
                                 \o (IF declined THEN <<>>
                                     ELSE <<Call("ask_nova questions", questions_text)>>),
                       context |-> <<>>,
                       end |-> IF raised THEN "IndexError" ELSE "rerun"]
           /\ cycle' = IF planned /\ ~raised
                       THEN [cycle EXCEPT !.planned = Len(parsed)]
                       ELSE cycle
    /\ UNCHANGED <<answers, suggestions, risk_tolerance, awaiting_confirmation,
                   conversation_complete, nova_client, pure>>

\* faulty variant: the unused fetch_stock_performance is called as well
SynthesisCalls_WithStocks(suggestions_text, news) ==
    <<Call("ask_nova suggestions", suggestions_text), Call("fetch_news", news),
      Call("fetch_stock_performance", <<>>)>>

\* lines 261 and 271: the calls STAGE 3 makes, in order
SynthesisCalls(suggestions_text, news) ==
    <<Call("ask_nova suggestions", suggestions_text), Call("fetch_news", news)>>

\* lines 239-285: STAGE 3, entered with the values the run holds at line 238
Synthesis(from, said, ans, index, suggestions_response, news) ==
    LET context == Zip(questions, ans)
        static_data == get_static_bank_info(broad_intent[1])
        suggestions_text == ask_nova(suggestions_response)
        final_suggestions == parse_unique_suggestions(suggestions_text)
    IN  /\ suggestions' = final_suggestions
        /\ messages' = Append(said, AssistantMsg(
                           SuggestionsMessage(final_suggestions, news, static_data)))
        /\ questions' = <<>>
        /\ answers' = <<>>
        /\ current_question_index' = index
        /\ conversation_complete' = TRUE
        /\ last' = [from |-> from,
                    calls |-> SynthesisCalls(suggestions_text, news),
                    context |-> context,
                    end |-> "rerun"]
        /\ cycle' = [cycle EXCEPT
                         !.synth_runs = @ + 1,
                         !.answered = IF from = "STAGE 2" THEN @ + 1 ELSE @]

\* faulty variant: the follow-up run discards the suggestions it answers about
FollowUp_ForgetsSuggestions(from, user_input, said, ans, index, follow_up_response) ==
    LET response == ask_nova(follow_up_response)
    IN  /\ messages' = Append(said, AssistantMsg(response))
        /\ answers' = ans
        /\ current_question_index' = index
        /\ conversation_complete' = TRUE
        /\ suggestions' = <<>>
        /\ last' = [from |-> from,
                    calls |-> <<Call("ask_nova follow_up", response)>>,
                    context |-> <<>>,
                    end |-> "rerun"]
        /\ cycle' = [cycle EXCEPT
                         !.answered = IF from = "STAGE 2" THEN @ + 1 ELSE @]
        /\ UNCHANGED questions

\* lines 289-299: STAGE 4, entered with the values the run holds at line 288
FollowUp(from, user_input, said, ans, index, follow_up_response) ==
    LET response == ask_nova(follow_up_response)
    IN  /\ messages' = Append(said, AssistantMsg(response))
        /\ answers' = ans
        /\ current_question_index' = index
        /\ conversation_complete' = TRUE
        /\ last' = [from |-> from,
                    calls |-> <<Call("ask_nova follow_up", response)>>,
                    context |-> <<>>,
                    end |-> "rerun"]
        /\ cycle' = [cycle EXCEPT
                         !.answered = IF from = "STAGE 2" THEN @ + 1 ELSE @]
        /\ UNCHANGED <<questions, suggestions>>

\* lines 183, 224-235 and what follows in the same run: an answer
Stage2(user_input, suggestions_response, news, follow_up_response) ==
    /\ UserTurns < MaxTurns
    /\ Stage2Applies
    /\ LET said == Append(messages, UserMsg(user_input))
           ans == Append(answers, user_input)
           index == current_question_index + 1
       IN  IF HasMoreQuestions(index, questions)
           THEN /\ answers' = ans
                /\ current_question_index' = index
                /\ messages' = Append(said, AssistantMsg(questions[index + 1]))
                /\ last' = [from |-> "STAGE 2", calls |-> <<>>,
                            context |-> <<>>, end |-> "rerun"]
                /\ cycle' = [cycle EXCEPT !.answered = @ + 1]
                /\ UNCHANGED <<questions, suggestions, conversation_complete>>
           ELSE IF Stage3Applies(TRUE, suggestions)
           THEN Synthesis("STAGE 2", said, ans, index, suggestions_response, news)
           ELSE FollowUp("STAGE 2", user_input, said, ans, index, follow_up_response)
    /\ UNCHANGED <<goal, broad_intent, risk_tolerance, awaiting_confirmation,
                   nova_client, pure>>

\* lines 183, 238-285: an utterance that reaches STAGE 3 directly
Stage3(user_input, suggestions_response, news) ==
    /\ UserTurns < MaxTurns
    /\ ~Stage1Applies /\ ~Stage2Applies
    /\ Stage3Applies(conversation_complete, suggestions)
    /\ Synthesis("STAGE 3", Append(messages, UserMsg(user_input)), answers,
                 current_question_index, suggestions_response, news)
    /\ UNCHANGED <<goal, broad_intent, risk_tolerance, awaiting_confirmation,
                   nova_client, pure>>

\* lines 183, 288-299: a follow-up utterance
Stage4(user_input, follow_up_response) ==
    /\ UserTurns < MaxTurns
    /\ ~Stage1Applies /\ ~Stage2Applies
    /\ Stage4Applies(conversation_complete, suggestions)
    /\ FollowUp("STAGE 4", user_input, Append(messages, UserMsg(user_input)),
                answers, current_question_index, follow_up_response)
    /\ UNCHANGED <<goal, broad_intent, risk_tolerance, awaiting_confirmation,
                   nova_client, pure>>

\* line 183 alone: no branch of the chain takes the utterance
NoStage(user_input) ==
    /\ UserTurns < MaxTurns
    /\ NextStage = "none"
    /\ messages' = Append(messages, UserMsg(user_input))
    /\ last' = [from |-> "none", calls |-> <<>>, context |-> <<>>, end |-> "end"]
    /\ UNCHANGED <<questions, answers, suggestions, goal, broad_intent,
                   risk_tolerance, awaiting_confirmation, current_question_index,
                   conversation_complete, nova_client, cycle, pure>>

\* faulty variant: the reset also preserves the chat history
ResetDeletes_KeepsMessages(key) == key \notin {"nova_client", "messages"}

\* line 304: the keys the reset button deletes
ResetDeletes(key) == key # "nova_client"

\* lines 50-52 after the deletion: a missing key gets its default
AfterReset(key, value) == IF ResetDeletes(key) THEN defaults[key] ELSE value

\* lines 302-306 and the rerun's initialize_session_state
Reset ==
    /\ messages' = AfterReset("messages", messages)
    /\ questions' = AfterReset("questions", questions)
    /\ answers' = AfterReset("answers", answers)
    /\ suggestions' = AfterReset("suggestions", suggestions)
    /\ goal' = AfterReset("goal", goal)
    /\ broad_intent' = AfterReset("broad_intent", broad_intent)
    /\ risk_tolerance' = AfterReset("risk_tolerance", risk_tolerance)
    /\ awaiting_confirmation' =
           AfterReset("awaiting_confirmation", awaiting_confirmation)
    /\ current_question_index' =
           AfterReset("current_question_index", current_question_index)
    /\ conversation_complete' =
           AfterReset("conversation_complete", conversation_complete)
    /\ last' = [from |-> NextStage, calls |-> <<>>, context |-> <<>>,
                end |-> "reset"]
    /\ cycle' = [planned |-> 0, answered |-> 0, synth_runs |-> 0]
    /\ UNCHANGED <<nova_client, pure>>

Next ==
    \/ \E u \in {Utterance(UserTurns + 1)}, i \in IntentResponses, q \in PlannerResponses :
           Stage1(u, i, q)
    \/ \E u \in {Utterance(UserTurns + 1)}, s \in SuggestionResponses, n \in NewsResults,
          f \in FollowUpResponses :
           Stage2(u, s, n, f)
    \/ \E u \in {Utterance(UserTurns + 1)}, s \in SuggestionResponses, n \in NewsResults :
           Stage3(u, s, n)
    \/ \E u \in {Utterance(UserTurns + 1)}, f \in FollowUpResponses : Stage4(u, f)
    \/ \E u \in {Utterance(UserTurns + 1)} : NoStage(u)
    \/ Reset

Spec == Init /\ [][Next]_vars

-----------------------------------------------------------------------------
(* The helper functions applied on their own *)

\* all texts of at most n characters over an alphabet
TextsUpTo(alphabet, n) == UNION {[1..k -> alphabet] : k \in 0..n}

\* texts given to parse_unique_suggestions: every short text over titles
\* differing in case or letter, ':' and newline, and the synthesis responses
ParseInputs ==
    TextsUpTo({"A", "a", "b", ":", "\n"}, MaxTextLen) \cup SuggestionResponses

\* title parts (the text before the first ':') given to the title cleaning
TitleInputs == TextsUpTo({"1", ".", ")", " ", "A"}, MaxTitleLen)

\* intents given to get_static_bank_info: the six categories of the
\* classifier prompt and texts that are none of them
IntentInputs ==
    IntentResponses \cup
    {SavingInvesting, GeneralInquiry, GatewayFailure,
     <<"B", "u", "d", "g", "e", "t", "i", "n", "g", "/", "E", "x", "p", "e", "n", "s", "e", " ", "C", "o", "n", "t", "r", "o", "l">>,
     DebtManagement \o <<".">>, <<" ">> \o DebtManagement,
     Lower(DebtManagement), SavingInvesting \o <<"\n">>,
     <<"l", "o", "a", "n", "s">>}

FnCall(fn, arg) == [fn |-> fn, arg |-> arg, result |-> <<>>, done |-> FALSE]

FnInit ==
    /\ messages = defaults.messages
    /\ questions = defaults.questions
    /\ answers = defaults.answers
    /\ suggestions = defaults.suggestions
    /\ goal = defaults.goal
    /\ broad_intent = defaults.broad_intent
    /\ risk_tolerance = defaults.risk_tolerance
    /\ awaiting_confirmation = defaults.awaiting_confirmation
    /\ current_question_index = defaults.current_question_index
    /\ conversation_complete = defaults.conversation_complete
    /\ nova_client = TRUE
    /\ last = [from |-> "start", calls |-> <<>>, context |-> <<>>, end |-> "start"]
    /\ cycle = [planned |-> 0, answered |-> 0, synth_runs |-> 0]
    /\ pure \in {FnCall("parse_unique_suggestions", t) : t \in ParseInputs}
              \cup {FnCall("clean_title", t) : t \in TitleInputs}
              \cup {FnCall("get_static_bank_info", t) : t \in IntentInputs}

\* the session state is not touched by a helper applied on its own
FnFrame ==
    UNCHANGED <<messages, questions, answers, suggestions, goal, broad_intent,
                risk_tolerance, awaiting_confirmation, current_question_index,
                conversation_complete, nova_client, last, cycle>>

ApplyParse ==
    /\ pure.fn = "parse_unique_suggestions" /\ ~pure.done
    /\ pure' = [pure EXCEPT !.result = parse_unique_suggestions(pure.arg),
                            !.done = TRUE]
    /\ FnFrame

ApplyCleanTitle ==
    /\ pure.fn = "clean_title" /\ ~pure.done
    /\ pure' = [pure EXCEPT !.result = clean_title(pure.arg), !.done = TRUE]
    /\ FnFrame

ApplyStaticBankInfo ==
    /\ pure.fn = "get_static_bank_info" /\ ~pure.done
    /\ pure' = [pure EXCEPT !.result = get_static_bank_info(pure.arg),
                            !.done = TRUE]
    /\ FnFrame

FnNext == ApplyParse \/ ApplyCleanTitle \/ ApplyStaticBankInfo

FnSpec == FnInit /\ [][FnNext]_vars

-----------------------------------------------------------------------------
(* Properties *)

LastMessage == messages[Len(messages)]

\* the last run was a STAGE 1 run; its first call is the classifier's
ClassifiedLastRun == last.from = "STAGE 1" /\ last.end # "reset"
ClassifierResult == last.calls[1].result

\* the last run was a STAGE 1 run that also called the question planner
PlannedLastRun == ClassifiedLastRun /\ Len(last.calls) = 2
PlannerResult == last.calls[2].result

\* the trimmed non-empty lines of a text, in their original order
TrimmedLines(text) ==
    LET raw == Split(text, "\n")
        kept == {i \in 1..Len(raw) : Strip(raw[i]) # <<>>}
        Nth(k) == CHOOSE i \in kept : Cardinality({j \in kept : j < i}) = k - 1
    IN  [k \in 1..Cardinality(kept) |-> Strip(raw[Nth(k)])]

\* C1: after a STAGE 1 run whose classifier result contains "Out of Domain"
\* or "General Inquiry", goal is unset, no questions are queued,
\* conversation_complete is false and the next utterance is taken by STAGE 1.
C1_DeclinedGoalStaysAwaitingGoal ==
    (ClassifiedLastRun
        /\ (Contains(OutOfDomain, ClassifierResult)
            \/ Contains(GeneralInquiry, ClassifierResult)))
    => /\ goal = None
       /\ questions = <<>>
       /\ ~conversation_complete
       /\ NextStage = "STAGE 1"

\* a goal declined as a general inquiry right after one declined as out of domain
C1_Witness ==
    /\ ClassifiedLastRun
    /\ Contains(GeneralInquiry, ClassifierResult)
    /\ Len(messages) = 4
    /\ messages[2].content = OutOfDomainMsg
    /\ LastMessage.content = GeneralInquiryMsg
    /\ goal = None

\* C2: in every reachable state 0 <= current_question_index <= len(questions).
C2_IndexWithinQuestions ==
    0 <= current_question_index /\ current_question_index <= Len(questions)

\* C3: with N >= 2 planner lines (N-1 queued), conversation_complete is false
\* after fewer than N-1 answers, true from the (N-1)-th answer on, and
\* synthesis has run by the end of the run that set it.
C3_CompleteOnLastAnswer ==
    cycle.planned >= 2
    => /\ cycle.answered <= cycle.planned - 1
       /\ conversation_complete <=> (cycle.answered = cycle.planned - 1)
       /\ conversation_complete => cycle.synth_runs >= 1

\* 4 lines, 3 queued: the third answer completes and synthesises in one run
C3_Witness ==
    /\ cycle.planned = 4
    /\ cycle.answered = 3
    /\ last.from = "STAGE 2" /\ last.end = "rerun"
    /\ conversation_complete
    /\ cycle.synth_runs = 1
    /\ LastMessage.role = "assistant"

\* C4: after a STAGE 1 run whose planner response has N >= 1 non-empty
\* trimmed lines, the first line is the assistant message, the other N-1 are
\* queued in their order and current_question_index is 0.
C4_FirstLineEmittedRestQueued ==
    (PlannedLastRun /\ TrimmedLines(PlannerResult) # <<>>)
    => /\ LastMessage = AssistantMsg(TrimmedLines(PlannerResult)[1])
       /\ questions = Tail(TrimmedLines(PlannerResult))
       /\ current_question_index = 0

\* a 4-line response with a blank second line: 3 lines kept, 2 queued
C4_Witness ==
    /\ PlannedLastRun
    /\ Len(Split(PlannerResult, "\n")) = 4
    /\ Len(TrimmedLines(PlannerResult)) = 3
    /\ Len(questions) = 2
    /\ LastMessage.role = "assistant"

\* C5: a reset leaves every conversation field at its default, so the next
\* utterance is taken by STAGE 1, and keeps the gateway client.
C5_ResetClearsConversation ==
    [][last'.end = "reset"
       => /\ messages' = <<>> /\ questions' = <<>> /\ answers' = <<>>
          /\ suggestions' = <<>>
          /\ goal' = None /\ broad_intent' = None
          /\ current_question_index' = 0
          /\ conversation_complete' = FALSE
          /\ NextStage' = "STAGE 1"
          /\ nova_client' = nova_client]_vars

\* a reset issued while follow-ups were being answered
C5_Witness ==
    /\ last.end = "reset"
    /\ last.from = "STAGE 4"
    /\ messages = <<>>

\* C6: synthesis runs at most once per cycle, and once it has run the next
\* utterance is taken as a follow-up.
C6_SynthesisOncePerCycle ==
    /\ cycle.synth_runs <= 1
    /\ cycle.synth_runs = 1 => NextStage = "STAGE 4"

\* C7: messages alternates user, assistant; every utterance has its answer
\* and the next utterance will be handled.
C7_EveryUtteranceAnswered ==
    /\ \A i \in 1..Len(messages) :
           messages[i].role = IF i % 2 = 1 THEN "user" ELSE "assistant"
    /\ Len(messages) % 2 = 0
    /\ NextStage # "none"

\* C8: after a planner response that is empty or only whitespace the
\* rephrase request is emitted and the next utterance is taken by STAGE 1.
C8_EmptyPlanStaysAwaitingGoal ==
    (PlannedLastRun /\ Strip(PlannerResult) = <<>>)
    => /\ LastMessage = AssistantMsg(RephraseMsg)
       /\ NextStage = "STAGE 1"

\* C9: a STAGE 1 run whose classifier call returns empty text leaves goal,
\* broad_intent, questions, answers, current_question_index,
\* conversation_complete and suggestions as they were and does not call the
\* planner.
C9_ClassifierFailureLeavesState ==
    [][(Stage1Applies /\ ClassifiedLastRun'
           /\ ClassifierResult' = GatewayFailure)
       => /\ UNCHANGED <<goal, broad_intent, questions, answers, suggestions,
                         current_question_index, conversation_complete>>
          /\ Len(last'.calls) = 1
          /\ LastMessage'.role = "assistant"]_vars

\* C10: when a gateway call of the last run failed, the assistant message of
\* that run is a fixed non-empty fallback text.
C10_FailureYieldsFallbackMessage ==
    (\E i \in 1..Len(last.calls) :
        /\ last.calls[i].fn # "fetch_news"
        /\ last.calls[i].result = GatewayFailure)
    => /\ messages # <<>>
       /\ LastMessage.role = "assistant"
       /\ LastMessage.content \in {safe_nova_call_fallback, RephraseMsg}

\* the last run made the suggestion-synthesis call (STAGE 3, lines 239-285)
SynthesisedLastRun ==
    /\ last.end = "rerun"
    /\ last.calls # <<>>
    /\ last.calls[1].fn = "ask_nova suggestions"

\* the positions of the assistant messages whose content is text
EmittedAt(text) ==
    {m \in 1..Len(messages) : messages[m] = AssistantMsg(text)}

\* C13: when synthesis builds the context summary, the answer paired with
\* each question is the user utterance that directly replied to the assistant
\* message that emitted that question.
C13_AnswersPairedWithTheirQuestions ==
    SynthesisedLastRun
    => \A i \in 1..Len(last.context) :
          \E m \in EmittedAt(last.context[i].q) :
             /\ m < Len(messages)
             /\ messages[m + 1] = UserMsg(last.context[i].a)

\* C14: conversation_complete turns true only in an answer run (STAGE 2) whose
\* incremented current_question_index equals len(questions), and turns false
\* again only by the reset; so it turns true at most once per cycle.
C14_CompleteSetOnceOnLastAnswer ==
    [][/\ (~conversation_complete /\ conversation_complete')
          => /\ last'.from = "STAGE 2"
             /\ last'.end # "reset"
             /\ current_question_index' = current_question_index + 1
             /\ current_question_index' = Len(questions)
       /\ (conversation_complete /\ ~conversation_complete')
          => last'.end = "reset"]_vars

\* the third answer of a cycle completed a queue of three questions
C14_Witness ==
    /\ conversation_complete
    /\ last.from = "STAGE 2"
    /\ last.end = "rerun"
    /\ current_question_index = 3
    /\ cycle.answered = 3

\* C15: when the synthesis call of the last run returned empty or
\* whitespace-only text, the assistant message is not a suggestion list, the
\* questions and answers of the context summary are still held, and the next
\* utterance is not taken by the follow-up branch.
C15_EmptySynthesisKeepsState ==
    (SynthesisedLastRun /\ Strip(last.calls[1].result) = <<>>)
    => /\ SubSeq(LastMessage.content, 1, Len(SuggestionsHeader)) # SuggestionsHeader
       /\ Len(questions) >= Len(last.context)
       /\ \A i \in 1..Len(last.context) :
             /\ questions[i] = last.context[i].q
             /\ answers[i] = last.context[i].a
       /\ NextStage # "STAGE 4"

\* C16: when the last answer has completed the conversation, every question
\* of the queue was emitted as an assistant message exactly once, and in
\* queue order.
C16_EveryQueuedQuestionEmittedOnce ==
    (SynthesisedLastRun /\ last.from = "STAGE 2")
    => /\ \A i \in 1..Len(last.context) :
             Cardinality(EmittedAt(last.context[i].q)) = 1
       /\ \A i, j \in 1..Len(last.context) :
             i < j => \A m \in EmittedAt(last.context[i].q),
                         n \in EmittedAt(last.context[j].q) : m < n

\* C17: while a goal is set, no run except the reset changes goal or
\* broad_intent; and a run taken by the follow-up branch leaves suggestions,
\* questions, answers, current_question_index and conversation_complete
\* unchanged, appends the user message and one assistant message holding the
\* gateway's response, and leaves the next utterance to the follow-up branch.
C17_GoalFixedAndFollowUpFrame ==
    [][/\ (Truthy(goal) /\ last'.end # "reset")
          => /\ goal' = goal
             /\ broad_intent' = broad_intent
       /\ (NextStage = "STAGE 4" /\ last'.end # "reset")
          => /\ UNCHANGED <<suggestions, questions, answers,
                            current_question_index, conversation_complete>>
             /\ Len(last'.calls) = 1
             /\ last'.calls[1].fn = "ask_nova follow_up"
             /\ messages' = messages \o
                    <<UserMsg(Utterance(UserTurns + 1)),
                      AssistantMsg(last'.calls[1].result)>>
             /\ NextStage' = "STAGE 4"]_vars

\* a follow-up run answered with the gateway's text
C17_Witness ==
    /\ last.from = "STAGE 4"
    /\ last.end = "rerun"
    /\ Truthy(goal)
    /\ suggestions # <<>>
    /\ LastMessage = AssistantMsg(<<"o", "k">>)

\* C19: the run of one utterance makes at most two outbound calls, one
\* after the other, and at most one of them is the suggestion synthesis.
C19_AtMostTwoCallsPerUtterance ==
    /\ Len(last.calls) <= 2
    /\ Cardinality({i \in 1..Len(last.calls) :
                       last.calls[i].fn = "ask_nova suggestions"}) <= 1

\* a run that made the synthesis call and then the news fetch
C19_Witness ==
    /\ last.from = "STAGE 3"
    /\ Len(last.calls) = 2
    /\ last.calls[1].fn = "ask_nova suggestions"
    /\ last.calls[2].fn = "fetch_news"

\* C20: whenever the next utterance is an answer (STAGE 2), len(answers) =
\* current_question_index; and in a run that makes the synthesis, the answers
\* held at the start of the run plus the one the run appended are as many as
\* the questions, so the context summary has one pair per question.
C20_AnswersCountMatchesQuestions ==
    [][/\ Stage2Applies' => Len(answers') = current_question_index'
       /\ SynthesisedLastRun'
          => /\ Len(questions) =
                    Len(answers) + (IF last'.from = "STAGE 2" THEN 1 ELSE 0)
             /\ Len(last'.context) = Len(questions)]_vars

\* a synthesis over two question/answer pairs
C20_Witness ==
    /\ SynthesisedLastRun
    /\ last.from = "STAGE 2"
    /\ Len(last.context) = 2
    /\ cycle.planned = 3

-----------------------------------------------------------------------------
(* Properties of the helper functions (FnSpec) *)

Applied(fn) == pure.fn = fn /\ pure.done

\* two characters that are the same letter in either case
SameLetter(c, d) ==
    c = d \/ {c, d} \in {{"A", "a"}, {"B", "b"}, {"C", "c"}}

EqualIgnoringCase(s, t) ==
    Len(s) = Len(t) /\ \A i \in 1..Len(s) : SameLetter(s[i], t[i])

HasColon(line) == \E i \in 1..Len(line) : line[i] = ":"

\* the cleaned title and the explanation of a line that holds a ':'
TitleOf(line) == clean_title(SubSeq(line, 1, FirstIndex(line, ":") - 1))
ExplanationOf(line) == Strip(SubSeq(line, FirstIndex(line, ":") + 1, Len(line)))

\* the entries of the lines whose positions are in kept, in line order
EntriesAt(lines, kept) ==
    LET Nth(k) == CHOOSE i \in kept : Cardinality({j \in kept : j < i}) = k - 1
    IN  [k \in 1..Cardinality(kept) |->
            [title |-> TitleOf(lines[Nth(k)]),
             explanation |-> ExplanationOf(lines[Nth(k)])]]

\* positions of the ':' lines that no earlier ':' line equals in title,
\* ignoring case
FirstOccurrences(lines) ==
    {i \in 1..Len(lines) :
        /\ HasColon(lines[i])
        /\ ~\E j \in 1..(i - 1) :
               HasColon(lines[j])
               /\ EqualIgnoringCase(TitleOf(lines[j]), TitleOf(lines[i]))}

NoTwoTitlesEqualIgnoringCase(sugs) ==
    \A i, j \in 1..Len(sugs) :
        i # j => ~EqualIgnoringCase(sugs[i].title, sugs[j].title)

\* C11 (as claimed): parse_unique_suggestions returns the ':' lines in
\* encounter order, duplicates by case-insensitive cleaned title removed,
\* first occurrence kept.
C11_ParseKeepsEveryColonLine ==
    Applied("parse_unique_suggestions")
    => LET lines == Split(pure.arg, "\n")
       IN  pure.result = EntriesAt(lines, FirstOccurrences(lines))

\* C11 (amended): parse_unique_suggestions returns the ':' lines whose
\* cleaned title is not empty, in encounter order, duplicates by
\* case-insensitive cleaned title removed, first occurrence kept with its
\* own casing and explanation; no two returned titles are equal ignoring
\* case and lines without ':' contribute nothing.
C11_ParseKeepsFirstNonEmptyTitles ==
    Applied("parse_unique_suggestions")
    => LET lines == Split(pure.arg, "\n")
           titled == {i \in FirstOccurrences(lines) : TitleOf(lines[i]) # <<>>}
       IN  /\ pure.result = EntriesAt(lines, titled)
           /\ NoTwoTitlesEqualIgnoringCase(pure.result)
           /\ Len(pure.result) <= Cardinality({i \in 1..Len(lines) : HasColon(lines[i])})

\* "A:" then "a:" : the second line repeats the title in another case
C11_Witness ==
    /\ Applied("parse_unique_suggestions")
    /\ pure.arg = <<"A", ":", "\n", "a", ":">>
    /\ pure.result = <<[title |-> <<"A">>, explanation |-> <<>>]>>

\* the titles of the options of a lookup result, in order
OptionTitles(data) == [i \in 1..Len(data.options) |-> data.options[i].title]

\* C12: get_static_bank_info returns for "Debt Management" exactly the
\* options "Personal Loan", "Home Loan", "Car Loan" in that order, for
\* "Saving/Investing" exactly 2 deposit options, and for every other intent
\* text nothing.
C12_StaticLookupByExactIntent ==
    Applied("get_static_bank_info")
    => /\ pure.arg = DebtManagement
          => /\ pure.result # None
             /\ OptionTitles(pure.result[1]) =
                    <<<<"Personal Loan">>, <<"Home Loan">>, <<"Car Loan">>>>
       /\ pure.arg = SavingInvesting
          => /\ pure.result # None
             /\ pure.result[1].title = <<"Indicative Fixed Deposit Rates">>
             /\ Len(pure.result[1].options) = 2
       /\ pure.arg \notin {DebtManagement, SavingInvesting}
          => pure.result = None

\* the lookup applied to a debt intent with a trailing period: no data
C12_Witness ==
    /\ Applied("get_static_bank_info")
    /\ pure.arg = DebtManagement \o <<".">>
    /\ pure.result = None

\* the length of a leading ordinal marker of s: digits, then an optional
\* '.' or ')', then whitespace or the end of the text; 0 when s has none
OrdinalMarkerLen(s) ==
    LET ds == LeadingCount(s, Digits)
        p == IF ds < Len(s) /\ s[ds + 1] \in {".", ")"} THEN ds + 1 ELSE ds
    IN  IF ds >= 1 /\ (p = Len(s) \/ s[p + 1] \in Whitespace) THEN p ELSE 0

\* C18: the cleaned title is the trimmed title part without its leading
\* ordinal marker; a title part without such a marker (digits directly
\* followed by a letter, for one) is only trimmed.
C18_OnlyOrdinalMarkerStripped ==
    Applied("clean_title")
    => LET s == Strip(pure.arg)
       IN  pure.result = Strip(SubSeq(s, OrdinalMarkerLen(s) + 1, Len(s)))

====
